---- MODULE Spec2Model ----
(***************************************************************************)
(* A model of the WheelX SDK transaction executors:                        *)
(*   typescript/src/transaction.ts  TransactionExecutor (ethers provider   *)
(*                                  and signer)                            *)
(*   go/wheelx/wheelx_sdk.go        TransactionExecutor (ethclient)        *)
(* The chain (provider, node, signer) is the environment.  An async        *)
(* method of the TypeScript executor runs synchronously from one await to  *)
(* the next, so every action below is one such segment: the reply to the   *)
(* awaited query together with all the code that runs up to the next       *)
(* await, the return or the throw.                                         *)
(***************************************************************************)
EXTENDS Integers, FiniteSets, Sequences, TLC

\* An optional field that is absent (types.ts `?:`), a Go nil pointer.
undefined == -1
\* ethers FeeData.gasPrice is `bigint | null`.
null == -2
\* An absent string-valued field or argument.
NoString == "undefined"

\* ------------------------------------------------------------------ bounds
\* Transactions an account has had mined / has waiting in the mempool.
MaxTxCount == 1
\* Sends one behaviour of the executor makes.
MaxSends == 2
\* Receipt queries of one wait that are counted (the count saturates here).
MaxPolls == 5
\* Ticker intervals of one wait that are counted; the longest deadline.
MaxTicks == 5
\* Blocks mined on top of the inclusion block that are counted.
MaxDepth == 2

\* ------------------------------------------------------------- input sets
Addresses == {"alice", "bob"}
NoSigner == "none"
Calls == {1, 2}

\* Quote Tx (types.ts Tx).  to / value / data are opaque to the executor.
QuoteTo == "router"
QuoteData == "swap"
TxDatas ==
    [to : {QuoteTo}, value : {0}, data : {QuoteData},
     chainId : {undefined, 1},
     gas : {undefined, 0, 50000},
     maxFeePerGas : {undefined, 0, 30},
     maxPriorityFeePerGas : {undefined, 0, 2}]

\* Caller overrides (types.ts TransactionConfig).
Configs ==
    [gasLimit : {undefined, 0, 21000},
     maxFeePerGas : {undefined, 0, 40},
     maxPriorityFeePerGas : {undefined, 0, 3},
     nonce : {undefined, 0, 7}]
EmptyConfig ==
    [gasLimit |-> undefined, maxFeePerGas |-> undefined,
     maxPriorityFeePerGas |-> undefined, nonce |-> undefined]

\* The fee situations of the chain: what eth_gasPrice answers (ethers gives
\* null when the node has none), the latest block's base fee (absent before
\* London) and the node's priority-fee suggestion.
FeeStates ==
    {[gasPrice |-> 10, baseFee |-> undefined, priorityFee |-> 1],
     [gasPrice |-> 11, baseFee |-> 4, priorityFee |-> 2],
     [gasPrice |-> null, baseFee |-> 5, priorityFee |-> 1]}
NoFeeState == [gasPrice |-> undefined, baseFee |-> undefined, priorityFee |-> undefined]
\* What estimateGas may answer.
GasEstimates == {30000, 30001}
\* The id of the chain the provider is connected to.
NetworkChainId == 1

\* ------------------------------------------------------------------ state
VARIABLES
    signer,     \* TransactionExecutor.signer: NoSigner or the signer's address
    call,       \* per call of an executor method: its frame (see IdleCall)
    txCount,    \* chain: transactions mined per address ("latest" count)
    mempool,    \* chain: transactions accepted but not yet mined, per address
    quoteApprove, \* QuoteResponse.approve of the quote in hand is present
    approval,   \* chain: the approval transaction: none, pending, confirmed, failed
    sends,      \* signer.sendTransaction / Client.SendTransaction invocations
    mainSends,  \* those that carried the quote's tx
    go,         \* the call of a method of the Go executor (see GoIdle)
    receipt,    \* chain: the receipt of the transaction that is waited for
    wait,       \* the call that waits for or inspects it (see IdleWait)
    http        \* the call of a method of WheelXSDK (see IdleHttp)

vars == <<signer, call, txCount, mempool, quoteApprove, approval, sends, mainSends, go,
          receipt, wait, http>>
chain == <<txCount, mempool, approval, receipt>>

\* ------------------------------------------------------ JavaScript values
\* if (x): undefined, null, 0 and 0n are falsy.
Truthy(x) == x # undefined /\ x # null /\ x # 0

\* BigInt(n) of an integral number is the same integer (it throws on a
\* fraction, which no value of the input sets is).
BigInt(n) == n

\* --------------------------------------------------------------- provider
\* A count that reserves a nonce for every fill of the address in progress.
getTransactionCount_Reserving(address, blockTag) ==
    txCount[address]
    + Cardinality({c \in Calls : /\ call[c].fromAddress = address
                                 /\ call[c].pc \in {"awaitFee", "awaitGas", "built"}})

\* ethers Provider.getTransactionCount(address, blockTag?): the block tag
\* defaults to "latest", which counts mined transactions only; "pending"
\* adds the ones waiting in the mempool.
getTransactionCount(address, blockTag) ==
    IF blockTag = "pending"   \* NoString and "latest" both read the latest block
    THEN txCount[address] + mempool[address]
    ELSE txCount[address]

\* ------------------------------------------------------------ call frames
NoTransaction ==
    [to |-> NoString, value |-> undefined, data |-> NoString,
     chainId |-> undefined, nonce |-> undefined, gasPrice |-> undefined,
     maxFeePerGas |-> undefined, maxPriorityFeePerGas |-> undefined,
     gasLimit |-> undefined]

NoAsked == [nonce |-> 0, fee |-> 0, gas |-> 0]
NoAnswers == [nonce |-> undefined, fee |-> NoFeeState, gasLimit |-> undefined]
NoGasReq == [tx |-> NoTransaction, from |-> NoString]

\* What signer.sendTransaction may throw: the node's rejection of the
\* broadcast, which ethers raises as an Error with the node's reason, or a
\* value that is no Error (a wallet's plain rejection object).
Rejections ==
    {[isError |-> TRUE, message |-> "replacement transaction underpriced"],
     [isError |-> TRUE, message |-> "nonce too low"],
     [isError |-> FALSE, message |-> "rejected"]}
NoReject == [isError |-> FALSE, message |-> "none"]
\* Failures of the RPC transport, as the client reports them.
RpcErrors == {"connection refused"}
\* The hash of the transaction the node accepted.
TxHash == "0xhash"

\* transaction.ts 2, sdk.ts 1-9: the error classes are imported from
\* './types', and types.ts exports interfaces only (the classes are in
\* errors.ts): in the emitted module each of these names is a member of the
\* module object that is not there.
TypesExports == {}
\* throw new <cls>(message), with cls imported from './types': what is
\* thrown, as the name and message of the error.
ThrowNew(cls, message) ==
    IF cls \in TypesExports
    THEN cls \o ": " \o message
    ELSE "TypeError: types_1." \o cls \o " is not a constructor"
\* What `error instanceof <cls>` throws when cls is no object.
NotAnObject == "TypeError: Right-hand side of 'instanceof' is not an object"

IdleCall ==
    [pc |-> "idle", method |-> "none",
     txData |-> CHOOSE t \in TxDatas : TRUE,
     fromAddress |-> "alice",
     config |-> EmptyConfig,
     transaction |-> NoTransaction,
     asked |-> NoAsked,          \* provider queries made, by kind
     answers |-> NoAnswers,      \* what the provider answered
     gasReq |-> NoGasReq,        \* the estimateGas request
     sentTx |-> NoTransaction,   \* what signer.sendTransaction was given
     signerAtCall |-> NoSigner,  \* this.signer when the call was made
     sentBy |-> NoSigner,        \* the signer it was invoked on
     sendCalls |-> 0,            \* signer.sendTransaction invocations
     reject |-> NoReject,        \* what signer.sendTransaction threw
     hash |-> NoString,          \* TransactionResult.hash
     failed |-> "none",          \* the provider query that rejected
     cause |-> "none",           \* the message of the Error it rejected with
     error |-> "none"]

\* ------------------------------------------- buildTransaction, by segment
\* A fill that salts the nonce with a count the executor keeps of the
\* transactions it has built.
ApplyOverrides_NonceJitter(f) ==
    LET t1 == IF Truthy(f.config.maxFeePerGas)
              THEN [f.transaction EXCEPT !.maxFeePerGas = f.config.maxFeePerGas]
              ELSE f.transaction
        t2 == IF Truthy(f.config.maxPriorityFeePerGas)
              THEN [t1 EXCEPT !.maxPriorityFeePerGas = f.config.maxPriorityFeePerGas]
              ELSE t1
        built == Cardinality({c \in Calls : call[c].pc = "built"})
    IN  [f EXCEPT !.transaction = [t2 EXCEPT !.nonce = @ + built], !.pc = "built"]

\* transaction.ts 82-90: caller fee overrides, then return.
ApplyOverrides(f) ==
    LET t1 == IF Truthy(f.config.maxFeePerGas)
              THEN [f.transaction EXCEPT !.maxFeePerGas = f.config.maxFeePerGas]
              ELSE f.transaction
        t2 == IF Truthy(f.config.maxPriorityFeePerGas)
              THEN [t1 EXCEPT !.maxPriorityFeePerGas = f.config.maxPriorityFeePerGas]
              ELSE t1
    IN  [f EXCEPT !.transaction = t2, !.pc = "built"]

\* A slip in the order of the branches: the quote's gas before the override.
AfterFee_QuoteGasFirst(f) ==
    IF Truthy(f.txData.gas)
    THEN ApplyOverrides([f EXCEPT !.transaction.gasLimit = BigInt(f.txData.gas)])
    ELSE IF Truthy(f.config.gasLimit)
    THEN ApplyOverrides([f EXCEPT !.transaction.gasLimit = BigInt(f.config.gasLimit)])
    ELSE [f EXCEPT !.pc = "awaitGas",
                   !.asked.gas = @ + 1,
                   !.gasReq = [tx |-> f.transaction, from |-> f.fromAddress]]

\* An executor that keeps the estimates it was given and takes one of them
\* in place of asking again.
AfterFee_BorrowGas(f) ==
    IF Truthy(f.config.gasLimit)
    THEN ApplyOverrides([f EXCEPT !.transaction.gasLimit = BigInt(f.config.gasLimit)])
    ELSE IF Truthy(f.txData.gas)
    THEN ApplyOverrides([f EXCEPT !.transaction.gasLimit = BigInt(f.txData.gas)])
    ELSE IF \E c \in Calls : call[c].answers.gasLimit # undefined
    THEN ApplyOverrides([f EXCEPT !.transaction.gasLimit =
             call[CHOOSE c \in Calls : call[c].answers.gasLimit # undefined].answers.gasLimit])
    ELSE [f EXCEPT !.pc = "awaitGas",
                   !.asked.gas = @ + 1,
                   !.gasReq = [tx |-> f.transaction, from |-> f.fromAddress]]

\* transaction.ts 63-80: the gas limit; estimateGas({...transaction, from})
\* is awaited only when neither the config nor the quote gives a truthy value.
AfterFee(f) ==
    IF Truthy(f.config.gasLimit)
    THEN ApplyOverrides([f EXCEPT !.transaction.gasLimit = BigInt(f.config.gasLimit)])
    ELSE IF Truthy(f.txData.gas)
    THEN ApplyOverrides([f EXCEPT !.transaction.gasLimit = BigInt(f.txData.gas)])
    ELSE [f EXCEPT !.pc = "awaitGas",
                   !.asked.gas = @ + 1,
                   !.gasReq = [tx |-> f.transaction, from |-> f.fromAddress]]

\* transaction.ts 53-61: the fee model; getFeeData is awaited unless the
\* quote carries both dynamic fee fields, truthy.
AfterNonce(f) ==
    IF Truthy(f.txData.maxFeePerGas) /\ Truthy(f.txData.maxPriorityFeePerGas)
    THEN AfterFee([f EXCEPT
             !.transaction.maxFeePerGas = BigInt(f.txData.maxFeePerGas),
             !.transaction.maxPriorityFeePerGas = BigInt(f.txData.maxPriorityFeePerGas)])
    ELSE [f EXCEPT !.pc = "awaitFee", !.asked.fee = @ + 1]

\* transaction.ts 35-51: the signer check, the skeleton, the nonce.
StartBuild(f) ==
    IF signer = NoSigner
    THEN [f EXCEPT !.pc = "failed",
                   !.error = ThrowNew("TransactionError",
                                      "Signer is required for transaction building")]
    ELSE LET g == [f EXCEPT !.transaction =
                       [NoTransaction EXCEPT
                           !.to = f.txData.to,
                           !.value = BigInt(f.txData.value),
                           !.data = f.txData.data,
                           !.chainId = f.txData.chainId]]
         IN  IF f.config.nonce = undefined
             THEN [g EXCEPT !.pc = "awaitNonce", !.asked.nonce = @ + 1]
             ELSE AfterNonce([g EXCEPT !.transaction.nonce = f.config.nonce])

\* transaction.ts 48, 60: the awaits of the nonce and of the fee data stand
\* outside any try, so the provider's rejection is the call's.
QueryFailed(f, query, m) ==
    [f EXCEPT !.pc = "failed", !.failed = query, !.cause = m, !.error = m]

\* transaction.ts 75-79: the catch around estimateGas throws a new
\* TransactionError made of the message of what it caught.
EstimateFailed(f, m) ==
    [f EXCEPT !.pc = "failed", !.failed = "gas", !.cause = m,
              !.error = ThrowNew("TransactionError", "Failed to estimate gas: " \o m)]

\* What estimateGas may reject with: a transport failure, or the revert of
\* the simulated call.
EstimateErrors == RpcErrors \cup {"execution reverted"}

\* A call of buildTransaction(txData, fromAddress, config).
BuildFrame(td, from, cfg) ==
    StartBuild([IdleCall EXCEPT !.method = "buildTransaction",
                                !.txData = td,
                                !.fromAddress = from,
                                !.config = cfg])

CallBuild(c) ==
    /\ call[c].pc = "idle"
    /\ \E td \in TxDatas, from \in Addresses, cfg \in Configs :
           call' = [call EXCEPT ![c] = BuildFrame(td, from, cfg)]
    /\ UNCHANGED <<signer, chain, quoteApprove, sends, mainSends, go, wait, http>>

\* transaction.ts 48: provider.getTransactionCount(fromAddress) settles.
NonceReply(c) ==
    /\ call[c].pc = "awaitNonce"
    /\ \/ LET n == getTransactionCount(call[c].fromAddress, NoString)
          IN  call' = [call EXCEPT ![c] = AfterNonce(
                          [call[c] EXCEPT !.transaction.nonce = n,
                                          !.answers.nonce = n])]
       \/ \E m \in RpcErrors :
              call' = [call EXCEPT ![c] = QueryFailed(call[c], "nonce", m)]
    /\ UNCHANGED <<signer, chain, quoteApprove, sends, mainSends, go, wait, http>>

\* transaction.ts 60: provider.getFeeData() settles; its gasPrice is used.
FeeReply(c) ==
    /\ call[c].pc = "awaitFee"
    /\ \/ \E fs \in FeeStates :
              call' = [call EXCEPT ![c] = AfterFee(
                          [call[c] EXCEPT !.transaction.gasPrice = fs.gasPrice,
                                          !.answers.fee = fs])]
       \/ \E m \in RpcErrors :
              call' = [call EXCEPT ![c] = QueryFailed(call[c], "fee", m)]
    /\ UNCHANGED <<signer, chain, quoteApprove, sends, mainSends, go, wait, http>>

\* transaction.ts 70-79: provider.estimateGas settles.
GasReply(c) ==
    /\ call[c].pc = "awaitGas"
    /\ \/ \E g \in GasEstimates :
              call' = [call EXCEPT ![c] = ApplyOverrides(
                          [call[c] EXCEPT !.transaction.gasLimit = g,
                                          !.answers.gasLimit = g])]
       \/ \E m \in EstimateErrors :
              call' = [call EXCEPT ![c] = EstimateFailed(call[c], m)]
    /\ UNCHANGED <<signer, chain, quoteApprove, sends, mainSends, go, wait, http>>

\* ------------------------------- signAndSendTransaction, executeQuote...
\* The signers a caller may install, and the approval transaction a caller
\* builds from QuoteResponse.approve: approve(spender, amount) on the token.
Signers == {"alice"}
ApprovalTx == [NoTransaction EXCEPT !.to = "token", !.value = 0, !.data = "approve"]
IsMain(t) == t.data = QuoteData

\* Quotes and overrides the send path is exercised with: the documented
\* quote with all its gas fields, and the bare one.
ExecTxDatas ==
    {td \in TxDatas :
        /\ td.chainId = 1
        /\ \/ Truthy(td.gas) /\ Truthy(td.maxFeePerGas) /\ Truthy(td.maxPriorityFeePerGas)
           \/ td.gas = undefined /\ td.maxFeePerGas = undefined
              /\ td.maxPriorityFeePerGas = undefined}
ExecConfigs == {EmptyConfig, [EmptyConfig EXCEPT !.nonce = 7]}

\* transaction.ts 23-25.
setSigner(s) ==
    /\ signer' = s
    /\ UNCHANGED <<call, chain, quoteApprove, sends, mainSends, go, wait, http>>

\* A submit that sends again what it has just sent.
StartSend_Resend(f, t) ==
    IF signer = NoSigner
    THEN [f EXCEPT !.pc = "failed",
                   !.error = ThrowNew("TransactionError",
                                      "Signer is required for transaction execution")]
    ELSE [f EXCEPT !.pc = "awaitSend", !.sentTx = t, !.sentBy = signer,
                   !.sendCalls = @ + 2]

\* transaction.ts 99-104: the signer check; signer.sendTransaction(t) is
\* invoked and awaited.
StartSend(f, t) ==
    IF signer = NoSigner
    THEN [f EXCEPT !.pc = "failed",
                   !.error = ThrowNew("TransactionError",
                                      "Signer is required for transaction execution")]
    ELSE [f EXCEPT !.pc = "awaitSend", !.sentTx = t, !.sentBy = signer,
                   !.sendCalls = @ + 1]

SendCounts(t) ==
    /\ sends' = IF signer = NoSigner THEN sends ELSE sends + 1
    /\ mainSends' = IF signer # NoSigner /\ IsMain(t) THEN mainSends + 1 ELSE mainSends

\* A call of executeQuoteTransaction(txData, fromAddress, config): it starts
\* with buildTransaction (transaction.ts 125).
CallExecute(c) ==
    /\ call[c].pc = "idle"
    /\ sends < MaxSends
    /\ \E td \in ExecTxDatas, from \in Signers, cfg \in ExecConfigs :
           call' = [call EXCEPT ![c] = StartBuild(
                       [IdleCall EXCEPT !.method = "executeQuoteTransaction",
                                        !.signerAtCall = signer,
                                        !.txData = td,
                                        !.fromAddress = from,
                                        !.config = cfg])]
    /\ UNCHANGED <<signer, chain, quoteApprove, sends, mainSends, go, wait, http>>

\* An execute that hands on whatever the build left behind, settled or not.
ExecuteSend_Eager(c) ==
    /\ call[c].pc \in {"built", "failed"}
    /\ call[c].method = "executeQuoteTransaction"
    /\ call[c].sendCalls = 0
    /\ call' = [call EXCEPT ![c] = StartSend(call[c], call[c].transaction)]
    /\ SendCounts(call[c].transaction)
    /\ UNCHANGED <<signer, chain, quoteApprove, go, wait, http>>

\* transaction.ts 125-126: the build has settled with a transaction, which
\* goes to signAndSendTransaction.
ExecuteSend(c) ==
    /\ call[c].pc = "built"
    /\ call[c].method = "executeQuoteTransaction"
    /\ call' = [call EXCEPT ![c] = StartSend(call[c], call[c].transaction)]
    /\ SendCounts(call[c].transaction)
    /\ UNCHANGED <<signer, chain, quoteApprove, go, wait, http>>

\* A call of signAndSendTransaction(transaction) by the caller itself, with
\* the approval transaction the quote in hand asks for.
CallSignAndSend(c) ==
    /\ call[c].pc = "idle"
    /\ sends < MaxSends
    /\ quoteApprove
    /\ approval = "none"
    /\ call' = [call EXCEPT ![c] = StartSend(
                   [IdleCall EXCEPT !.method = "signAndSendTransaction"], ApprovalTx)]
    /\ SendCounts(ApprovalTx)
    /\ UNCHANGED <<signer, chain, quoteApprove, go, wait, http>>

\* transaction.ts 106-109: the result carries txResponse.hash.
SendSucceeded(f) == [f EXCEPT !.pc = "sent", !.hash = TxHash]

\* transaction.ts 110-114: whatever was thrown becomes a TransactionError
\* with the message of the Error, or 'Unknown error'.
SendFailed(f, r) ==
    [f EXCEPT !.pc = "failed", !.reject = r,
              !.error = ThrowNew("TransactionError",
                                 "Failed to send transaction: "
                                 \o (IF r.isError THEN r.message ELSE "Unknown error"))]

\* transaction.ts 104-114: signer.sendTransaction settles: the node took
\* the transaction into its mempool, or the send failed.
SendReply(c) ==
    /\ call[c].pc = "awaitSend"
    /\ \/ /\ call' = [call EXCEPT ![c] = SendSucceeded(call[c])]
          /\ mempool' = [mempool EXCEPT ![call[c].sentBy] = @ + 1]
          /\ approval' = IF IsMain(call[c].sentTx) THEN approval ELSE "pending"
          /\ UNCHANGED <<txCount, receipt>>
       \/ /\ \E r \in Rejections :
                 call' = [call EXCEPT ![c] = SendFailed(call[c], r)]
          /\ UNCHANGED chain
    /\ UNCHANGED <<signer, quoteApprove, sends, mainSends, go, wait, http>>

\* The chain mines the pending approval: it succeeds or reverts.
MineApproval ==
    /\ approval = "pending"
    /\ \E a \in Signers :
          /\ mempool[a] > 0
          /\ mempool' = [mempool EXCEPT ![a] = @ - 1]
          /\ txCount' = [txCount EXCEPT ![a] = @ + 1]
    /\ approval' \in {"confirmed", "failed"}
    /\ UNCHANGED <<signer, call, quoteApprove, receipt, sends, mainSends, go, wait, http>>

\* The chain mines another pending transaction of an account.
Mine ==
    /\ \E a \in Addresses :
          /\ mempool[a] > (IF approval = "pending" /\ a \in Signers THEN 1 ELSE 0)
          /\ mempool' = [mempool EXCEPT ![a] = @ - 1]
          /\ txCount' = [txCount EXCEPT ![a] = @ + 1]
    /\ UNCHANGED <<signer, call, approval, quoteApprove, receipt, sends, mainSends, go, wait, http>>

\* The caller takes the result (or the error); the frame is free again.
Return(c) ==
    /\ \/ call[c].pc \in {"failed", "sent"}
       \/ call[c].pc = "built" /\ call[c].method = "buildTransaction"
    /\ call' = [call EXCEPT ![c] = IdleCall]
    /\ UNCHANGED <<signer, chain, quoteApprove, sends, mainSends, go, wait, http>>

\* ------------------------------------------------- the Go executor
\* wheelx_sdk.go: the builders take the quote Tx and the sender only; every
\* query goes to the ethclient, in program order, the goroutine waiting in
\* each, and the first to fail ends the call with its error.  A nil pointer
\* dereference ends it in a panic.
GoNoAsked == [nonce |-> 0, chainId |-> 0, gasPrice |-> 0, tip |-> 0, header |-> 0]

GoIdle ==
    [state |-> "idle", method |-> "none",
     txData |-> CHOOSE t \in TxDatas : TRUE,
     fromAddress |-> "alice",
     privateKey |-> NoString,
     nonce |-> undefined,       \* the local nonce, once PendingNonceAt answered
     tx |-> NoTransaction,
     asked |-> GoNoAsked,
     fee |-> NoFeeState,        \* what the chain answered to the fee queries
     signs |-> 0,               \* types.SignTx invocations
     broadcasts |-> 0,          \* Client.SendTransaction invocations
     reject |-> "none",         \* what the node rejected the broadcast with
     failed |-> "none",         \* the query of a builder that failed
     cause |-> "none",          \* the error that query returned
     hash |-> NoString,         \* the common.Hash returned
     err |-> "none"]

\* ethclient PendingNonceAt: the account's nonce in the pending state.
PendingNonceAt(account) == txCount[account] + mempool[account]

\* return nil, fmt.Errorf("<msg>: %w", err)
GoError(f, query, msg, cause) ==
    [f EXCEPT !.state = "error", !.failed = query,
              !.cause = cause, !.err = msg \o ": " \o cause]
GoPanic(f) ==
    [f EXCEPT !.state = "panic",
              !.err = "invalid memory address or nil pointer dereference"]

\* What SuggestGasPrice returns from a node that has no gas price to give.
NoGasPrice == "method not available"

\* The goroutine calls the client and waits for its answer.
GoAsk(f, query, state) ==
    [f EXCEPT !.state = state, !.asked[query] = @ + 1]

\* wheelx_sdk.go 217-231: SuggestGasPrice has answered; the legacy
\* transaction is made of the nonce read first, the quote and the gas price.
BuildTransaction(f, gasPrice) ==
    IF f.txData.gas = undefined THEN GoPanic(f)
    ELSE [f EXCEPT
             !.state = "returned",
             !.tx = [NoTransaction EXCEPT
                        !.nonce = f.nonce,
                        !.to = f.txData.to,
                        !.value = f.txData.value,
                        !.gasLimit = f.txData.gas,
                        !.gasPrice = gasPrice,
                        !.data = f.txData.data]]

\* wheelx_sdk.go 259-278: HeaderByNumber has answered; the fee cap is the
\* tip plus twice the header's base fee.
BuildEIP1559Transaction(f, baseFee) ==
    LET gasTipCap == f.fee.priorityFee IN
    IF baseFee = undefined THEN GoPanic(f)
    ELSE IF f.txData.gas = undefined THEN GoPanic(f)
    ELSE [f EXCEPT
             !.state = "returned",
             !.tx = [NoTransaction EXCEPT
                        !.chainId = NetworkChainId,
                        !.nonce = f.nonce,
                        !.maxPriorityFeePerGas = gasTipCap,
                        !.maxFeePerGas = gasTipCap + baseFee * 2,
                        !.gasLimit = f.txData.gas,
                        !.to = f.txData.to,
                        !.value = f.txData.value,
                        !.data = f.txData.data]]

GoFrame(m, td, from) ==
    [GoIdle EXCEPT !.method = m, !.txData = td, !.fromAddress = from]

\* wheelx_sdk.go 204-206: BuildTransaction is called and asks for the nonce.
GoCallBuildTransaction ==
    /\ go.state = "idle"
    /\ \E td \in TxDatas, from \in Addresses :
           go' = GoAsk(GoFrame("BuildTransaction", td, from), "nonce", "PendingNonceAt")
    /\ UNCHANGED <<signer, call, chain, quoteApprove, sends, mainSends, wait, http>>

\* wheelx_sdk.go 235-237.
GoCallBuildEIP1559Transaction ==
    /\ go.state = "idle"
    /\ \E td \in TxDatas, from \in Addresses :
           go' = GoAsk(GoFrame("BuildEIP1559Transaction", td, from),
                       "nonce", "PendingNonceAt")
    /\ UNCHANGED <<signer, call, chain, quoteApprove, sends, mainSends, wait, http>>

\* wheelx_sdk.go 206-212, 237-243: PendingNonceAt answers; the next query
\* of the builder is made.
GoNonceReply ==
    /\ go.state = "PendingNonceAt"
    /\ \/ LET f == [go EXCEPT !.nonce = PendingNonceAt(go.fromAddress)]
          IN  go' = IF go.method = "BuildTransaction"
                    THEN GoAsk(f, "gasPrice", "SuggestGasPrice")
                    ELSE GoAsk(f, "chainId", "ChainID")
       \/ \E cause \in RpcErrors :
              go' = GoError(go, "nonce", "failed to get nonce", cause)
    /\ UNCHANGED <<signer, call, chain, quoteApprove, sends, mainSends, wait, http>>

\* wheelx_sdk.go 212-231: SuggestGasPrice answers; a node with no gas price
\* to give answers with an error.
GoGasPriceReply ==
    /\ go.state = "SuggestGasPrice"
    /\ \/ \E fs \in FeeStates :
              go' = IF fs.gasPrice = null
                    THEN GoError(go, "gasPrice", "failed to get gas price", NoGasPrice)
                    ELSE BuildTransaction([go EXCEPT !.fee.gasPrice = fs.gasPrice],
                                          fs.gasPrice)
       \/ \E cause \in RpcErrors :
              go' = GoError(go, "gasPrice", "failed to get gas price", cause)
    /\ UNCHANGED <<signer, call, chain, quoteApprove, sends, mainSends, wait, http>>

\* wheelx_sdk.go 249-255: SuggestGasTipCap answers; the header is asked for.
GoTipReply ==
    /\ go.state = "SuggestGasTipCap"
    /\ \/ \E fs \in FeeStates :
              go' = GoAsk([go EXCEPT !.fee.priorityFee = fs.priorityFee],
                          "header", "HeaderByNumber")
       \/ \E cause \in RpcErrors :
              go' = GoError(go, "tip", "failed to get gas tip cap", cause)
    /\ UNCHANGED <<signer, call, chain, quoteApprove, sends, mainSends, wait, http>>

\* wheelx_sdk.go 255-278: HeaderByNumber(ctx, nil) answers with the latest
\* header.
GoHeaderReply ==
    /\ go.state = "HeaderByNumber"
    /\ \/ \E fs \in FeeStates :
              go' = BuildEIP1559Transaction([go EXCEPT !.fee.baseFee = fs.baseFee],
                                            fs.baseFee)
       \/ \E cause \in RpcErrors :
              go' = GoError(go, "header", "failed to get header", cause)
    /\ UNCHANGED <<signer, call, chain, quoteApprove, sends, mainSends, wait, http>>

\* wheelx_sdk.go 282-308.  The transactions a caller submits: what the two
\* builders return.  The keys: a hex-encoded secp256k1 key, and one that
\* crypto.HexToECDSA refuses.
GoFilledTxs ==
    {[NoTransaction EXCEPT !.to = QuoteTo, !.value = 0, !.data = QuoteData,
                           !.nonce = 0, !.gasLimit = 50000, !.gasPrice = 10],
     [NoTransaction EXCEPT !.to = QuoteTo, !.value = 0, !.data = QuoteData,
                           !.chainId = NetworkChainId,
                           !.nonce = 0, !.gasLimit = 50000,
                           !.maxFeePerGas = 10, !.maxPriorityFeePerGas = 2]}
PrivateKeys == {"alice-key", "not-hex"}
HexToECDSA(k) == IF k = "alice-key" THEN "alice" ELSE NoSigner
\* The error of crypto.HexToECDSA for a string whose first character is no
\* hex digit.
HexToECDSAError(k) ==
    IF k = "not-hex" THEN "invalid hex character 'n' in private key" ELSE "none"
ZeroHash == "0x00"
\* The node's reasons for rejecting a broadcast.
NodeReasons == {"replacement transaction underpriced", "nonce too low"}

\* types.SignTx with types.NewEIP155Signer: the signer takes legacy
\* transactions only.
SignTxError(tx) ==
    IF tx.maxFeePerGas # undefined THEN "transaction type not supported" ELSE "none"

\* return common.Hash{}, fmt.Errorf("<msg>: %w", err)
GoSubmitError(f, msg, cause) ==
    [f EXCEPT !.state = "error", !.hash = ZeroHash, !.err = msg \o ": " \o cause]

\* wheelx_sdk.go 282-290: the key is parsed, then the chain id asked for.
SignAndSendTransaction(f) ==
    IF HexToECDSA(f.privateKey) = NoSigner
    THEN GoSubmitError(f, "failed to parse private key", HexToECDSAError(f.privateKey))
    ELSE GoAsk(f, "chainId", "ChainID")

GoCallSignAndSendTransaction ==
    /\ go.state = "idle"
    /\ sends < MaxSends
    /\ \E tx \in GoFilledTxs, k \in PrivateKeys :
           go' = SignAndSendTransaction(
                     [GoIdle EXCEPT !.method = "SignAndSendTransaction",
                                    !.tx = tx, !.privateKey = k])
    /\ UNCHANGED <<signer, call, chain, quoteApprove, sends, mainSends, wait, http>>

\* A submit that does not look at what types.SignTx returned.
SignTx_SendUnsigned(f) ==
    [f EXCEPT !.signs = @ + 1, !.broadcasts = @ + 1, !.state = "SendTransaction"]

\* wheelx_sdk.go 296-302: the transaction is signed; what is signed is
\* handed to Client.SendTransaction.
SignTx(f) ==
    LET g == [f EXCEPT !.signs = @ + 1] IN
    IF SignTxError(f.tx) # "none"
    THEN GoSubmitError(g, "failed to sign transaction", SignTxError(f.tx))
    ELSE [g EXCEPT !.broadcasts = @ + 1, !.state = "SendTransaction"]

\* wheelx_sdk.go 243-249, 290-302: ChainID answers.  The dynamic-fee builder
\* goes on to the tip; the submit signs and broadcasts.
GoChainIDReply ==
    /\ go.state = "ChainID"
    /\ \/ go' = IF go.method = "SignAndSendTransaction"
                THEN SignTx(go)
                ELSE GoAsk(go, "tip", "SuggestGasTipCap")
       \/ \E cause \in RpcErrors :
              go' = IF go.method = "SignAndSendTransaction"
                    THEN GoSubmitError(go, "failed to get chain ID", cause)
                    ELSE GoError(go, "chainId", "failed to get chain ID", cause)
    /\ sends' = sends + (go'.broadcasts - go.broadcasts)
    /\ mainSends' = IF go'.broadcasts > go.broadcasts /\ IsMain(go.tx)
                    THEN mainSends + 1 ELSE mainSends
    /\ UNCHANGED <<signer, call, chain, quoteApprove, wait, http>>

\* wheelx_sdk.go 302-307: Client.SendTransaction answers: the node took the
\* transaction into its pool, or rejected it.
GoSendReply ==
    /\ go.state = "SendTransaction"
    /\ \/ /\ go' = [go EXCEPT !.state = "returned", !.hash = TxHash]
          /\ mempool' = [mempool EXCEPT ![HexToECDSA(go.privateKey)] = @ + 1]
       \/ /\ \E reason \in NodeReasons :
                 go' = GoSubmitError([go EXCEPT !.reject = reason],
                                     "failed to send transaction", reason)
          /\ UNCHANGED mempool
    /\ UNCHANGED <<signer, call, txCount, approval, receipt, quoteApprove,
                   sends, mainSends, wait, http>>

\* The caller takes the result; a panic ends the program.
GoReturn ==
    /\ go.state \in {"returned", "error"}
    /\ go' = GoIdle
    /\ UNCHANGED <<signer, call, chain, quoteApprove, sends, mainSends, wait, http>>

\* Another client of the node submits a transaction of an account, which
\* the node takes into its pool.
Accept ==
    /\ \E a \in Addresses :
          /\ txCount[a] + mempool[a] < 2 * MaxTxCount
          /\ mempool' = [mempool EXCEPT ![a] = @ + 1]
    /\ UNCHANGED <<signer, call, txCount, approval, receipt, quoteApprove,
                   sends, mainSends, go, wait, http>>

\* ------------------------------------------------- waiting for a receipt
\* The receipt of the transaction: none while it is not mined; once mined,
\* its status (1 success, 0 failure) and the blocks mined after its block.
NoReceipt == [status |-> undefined, depth |-> 0]

\* Counters of a wait saturate, so that a loop that never ends is a cycle.
Inc(n, max) == IF n < max THEN n + 1 ELSE max

\* Deadlines of the caller's context, in ticker intervals.
Deadlines == {2, MaxTicks}

IdleWait ==
    [method |-> "none", state |-> "idle",
     ctx |-> "none",            \* Go: how the caller's context can end
     deadline |-> undefined,    \* Go: its deadline, in ticker intervals
     done |-> "none",           \* Go: ctx.Err() once ctx.Done() is closed
     elapsed |-> 0,             \* Go: ticker intervals since the call
     tick |-> FALSE,            \* Go: a tick is waiting in ticker.C
     branch |-> "none",         \* Go: the select case taken last
     confirmations |-> undefined,   \* TS: after defaulting
     timeout |-> undefined,         \* TS: after defaulting, in ms
     queries |-> 0,             \* receipt queries issued
     notFound |-> 0,            \* of which answered "not found"
     rpcErrors |-> 0,           \* of which failed in transport
     result |-> NoReceipt,      \* the receipt returned
     value |-> "none",          \* the status string returned
     cause |-> "none",          \* TS: what made the try block throw
     err |-> "none"]            \* the error returned / thrown

others ==
    <<signer, call, txCount, mempool, quoteApprove, approval, sends, mainSends, go, http>>

\* The chain mines the transaction: it succeeds or reverts.
MineTx ==
    /\ receipt = NoReceipt
    /\ \E s \in {0, 1} : receipt' = [status |-> s, depth |-> 0]
    /\ UNCHANGED <<others, wait>>

\* The chain mines a block on top of the transaction's block.
MineBlock ==
    /\ receipt # NoReceipt
    /\ receipt.depth < MaxDepth
    /\ receipt' = [receipt EXCEPT !.depth = @ + 1]
    /\ UNCHANGED <<others, wait>>

\* ------------------------------------------ Go WaitForTransaction
\* wheelx_sdk.go 311-315: the ticker is made, the loop entered; ctx is the
\* caller's: context.Background(), WithCancel or WithTimeout.
GoCallWaitForTransaction ==
    /\ wait.state = "idle"
    /\ \/ \E k \in {"background", "cancel"} :
              wait' = [IdleWait EXCEPT !.method = "WaitForTransaction",
                                       !.state = "select", !.ctx = k]
       \/ \E d \in Deadlines :
              wait' = [IdleWait EXCEPT !.method = "WaitForTransaction",
                                       !.state = "select", !.ctx = "deadline",
                                       !.deadline = d]
    /\ UNCHANGED <<others, receipt>>

\* One ticker interval passes: a tick is put in ticker.C (which holds one),
\* and a context whose deadline is reached is done.
Tick ==
    /\ wait.method = "WaitForTransaction"
    /\ wait.state \in {"select", "querying"}
    /\ LET e == Inc(wait.elapsed, MaxTicks)
       IN  wait' = [wait EXCEPT
                       !.elapsed = e,
                       !.tick = TRUE,
                       !.done = IF wait.ctx = "deadline" /\ wait.done = "none"
                                   /\ e >= wait.deadline
                                THEN "context deadline exceeded" ELSE @]
    /\ UNCHANGED <<others, receipt>>

\* The caller cancels the context of a wait in progress.
Cancel ==
    /\ wait.method = "WaitForTransaction"
    /\ wait.state \in {"select", "querying"}
    /\ wait.ctx = "cancel"
    /\ wait.done = "none"
    /\ wait' = [wait EXCEPT !.done = "context canceled"]
    /\ UNCHANGED <<others, receipt>>

\* A loop that, seeing the context done, asks for the receipt a last time.
GoDone_LastLook(w) ==
    [w EXCEPT !.state = "querying", !.branch = "done",
              !.queries = Inc(@, MaxPolls)]

\* wheelx_sdk.go 317-318: case <-ctx.Done(): return nil, ctx.Err()
GoDone(w) ==
    [w EXCEPT !.state = "returned", !.branch = "done",
              !.result = NoReceipt, !.err = w.done]

\* wheelx_sdk.go 319-320: case <-ticker.C: the receipt is asked for.
GoTicker(w) ==
    [w EXCEPT !.state = "querying", !.branch = "ticker", !.tick = FALSE,
              !.queries = Inc(@, MaxPolls)]

\* wheelx_sdk.go 316-320: the select; when both channels are ready Go takes
\* either case.
GoSelect ==
    /\ wait.method = "WaitForTransaction"
    /\ wait.state = "select"
    /\ \/ wait.done # "none" /\ wait' = GoDone(wait)
       \/ wait.tick /\ wait' = GoTicker(wait)
    /\ UNCHANGED <<others, receipt>>

\* ethclient TransactionReceipt(ctx, txHash): the context's error when the
\* context is done, the transport's when it fails, ethereum.NotFound ("not
\* found") while the transaction has no receipt, else the receipt.
TransactionReceipt(ctxErr, outage) ==
    IF ctxErr # "none" THEN [receipt |-> NoReceipt, err |-> ctxErr]
    ELSE IF outage # "none" THEN [receipt |-> NoReceipt, err |-> outage]
    ELSE IF receipt = NoReceipt THEN [receipt |-> NoReceipt, err |-> "not found"]
    ELSE [receipt |-> receipt, err |-> "none"]

\* A loop that confirms a receipt by asking for it a second time.
GoAfterReceipt_AskTwice(w, q) ==
    IF q.err # "none"
    THEN IF q.err = "not found"
         THEN [w EXCEPT !.state = "select", !.notFound = Inc(@, MaxPolls)]
         ELSE [w EXCEPT !.state = "returned",
                        !.rpcErrors = Inc(@, MaxPolls),
                        !.result = NoReceipt,
                        !.err = "failed to get transaction receipt: " \o q.err]
    ELSE IF w.queries = w.notFound + 1
    THEN [w EXCEPT !.state = "select"]
    ELSE [w EXCEPT !.state = "returned", !.result = q.receipt, !.err = "none"]

\* wheelx_sdk.go 321-327: "not found" continues the loop, any other error
\* ends the call, a receipt is returned whatever its status.
GoAfterReceipt(w, q) ==
    IF q.err # "none"
    THEN IF q.err = "not found"
         THEN [w EXCEPT !.state = "select", !.notFound = Inc(@, MaxPolls)]
         ELSE [w EXCEPT !.state = "returned",
                        !.rpcErrors = Inc(@, MaxPolls),
                        !.result = NoReceipt,
                        !.err = "failed to get transaction receipt: " \o q.err]
    ELSE [w EXCEPT !.state = "returned", !.result = q.receipt, !.err = "none"]

\* wheelx_sdk.go 320: e.Client.TransactionReceipt answers.
GoReceiptReply ==
    /\ wait.method = "WaitForTransaction"
    /\ wait.state = "querying"
    /\ \E outage \in {"none"} \cup RpcErrors :
           wait' = GoAfterReceipt(wait, TransactionReceipt(wait.done, outage))
    /\ UNCHANGED <<others, receipt>>

\* ------------------------ TypeScript waitForTransaction, getTransactionStatus
\* The arguments callers give; an absent one takes the parameter's default.
WaitConfirmations == {undefined, 0, 1, 2}
WaitTimeouts == {undefined, 5000}
Default(x, d) == IF x = undefined THEN d ELSE x

\* transaction.ts 132-138: provider.waitForTransaction(txHash, confirmations,
\* timeout) is awaited.
CallWaitForTransaction ==
    /\ wait.state = "idle"
    /\ \E c \in WaitConfirmations, t \in WaitTimeouts :
           wait' = [IdleWait EXCEPT !.method = "waitForTransaction",
                                    !.state = "awaitWait",
                                    !.confirmations = Default(c, 1),
                                    !.timeout = Default(t, 120000)]
    /\ UNCHANGED <<others, receipt>>

\* transaction.ts 140-156: what follows the await.  p is how the provider's
\* promise settled: resolved with a receipt or null, or rejected.
AfterWait(w, p) ==
    LET \* 138-146: why the try block throws, "none" when it returns
        why == IF p.rejected THEN p.message
               ELSE IF p.receipt = NoReceipt THEN "Transaction receipt not found"
               ELSE IF p.receipt.status = 0 THEN "Transaction failed"
               ELSE "none"
        \* and what it throws
        inTry == IF p.rejected \/ why = "none" THEN why
                 ELSE ThrowNew("TransactionError", why)
        \* 149-155: the catch
        caught == IF "TransactionError" \notin TypesExports
                  THEN NotAnObject
                  ELSE IF ~p.rejected
                  THEN inTry
                  ELSE ThrowNew("TransactionError",
                                "Failed to wait for transaction: "
                                \o (IF p.isError THEN p.message ELSE "Unknown error"))
    IN  IF inTry = "none"
        THEN [w EXCEPT !.state = "returned", !.result = p.receipt]
        ELSE [w EXCEPT !.state = "thrown", !.cause = why, !.err = caught]

Resolved(r) == [rejected |-> FALSE, receipt |-> r, message |-> "none", isError |-> FALSE]
\* A rejection with an Error of message m.
Rejected(m) == [rejected |-> TRUE, receipt |-> NoReceipt, message |-> m, isError |-> TRUE]
\* A rejection with a value that is no Error.
RejectedWith(v) == [rejected |-> TRUE, receipt |-> NoReceipt, message |-> v, isError |-> FALSE]

\* ethers Provider.waitForTransaction settles: with 0 confirmations asked it
\* is getTransactionReceipt, a receipt or null; otherwise it resolves once
\* the receipt's block and those after it count up to confirmations, and
\* rejects with "timeout" when the timer fires first.
WaitSettles ==
    /\ wait.method = "waitForTransaction"
    /\ wait.state = "awaitWait"
    /\ \/ /\ wait.confirmations = 0
          /\ wait' = AfterWait([wait EXCEPT !.queries = Inc(@, MaxPolls)],
                               Resolved(receipt))
       \/ /\ wait.confirmations > 0
          /\ receipt # NoReceipt
          /\ receipt.depth + 1 >= wait.confirmations
          /\ wait' = AfterWait([wait EXCEPT !.queries = Inc(@, MaxPolls)],
                               Resolved(receipt))
       \/ \E m \in RpcErrors :
              wait' = AfterWait([wait EXCEPT !.rpcErrors = Inc(@, MaxPolls)],
                                Rejected(m))
       \/ wait' = AfterWait([wait EXCEPT !.rpcErrors = Inc(@, MaxPolls)],
                            RejectedWith("rejected"))
    /\ UNCHANGED <<others, receipt>>

\* The provider's timer of timeout ms fires before the receipt has come.
WaitTimesOut ==
    /\ wait.method = "waitForTransaction"
    /\ wait.state = "awaitWait"
    /\ wait.confirmations > 0
    /\ wait' = AfterWait(wait, Rejected("timeout"))
    /\ UNCHANGED <<others, receipt>>

\* transaction.ts 169-170: getTransactionReceipt(txHash) is awaited.
CallGetTransactionStatus ==
    /\ wait.state = "idle"
    /\ wait' = [IdleWait EXCEPT !.method = "getTransactionStatus",
                                !.state = "awaitReceipt",
                                !.queries = 1]
    /\ UNCHANGED <<others, receipt>>

\* transaction.ts 172-176.
AfterReceipt(w, r) ==
    IF r = NoReceipt
    THEN [w EXCEPT !.state = "returned", !.value = "pending"]
    ELSE [w EXCEPT !.state = "returned", !.result = r,
                   !.value = IF r.status = 1 THEN "confirmed" ELSE "failed"]

\* provider.getTransactionReceipt settles; its rejection is the caller's.
ReceiptReply ==
    /\ wait.method = "getTransactionStatus"
    /\ wait.state = "awaitReceipt"
    /\ \/ wait' = AfterReceipt(wait, receipt)
       \/ \E m \in RpcErrors :
              wait' = [wait EXCEPT !.state = "thrown", !.rpcErrors = 1, !.err = m]
    /\ UNCHANGED <<others, receipt>>

\* The caller takes the result of the wait (or its error).
WaitReturn ==
    /\ wait.state \in {"returned", "thrown"}
    /\ wait' = IdleWait
    /\ UNCHANGED <<others, receipt>>

\* ------------------------------------------------ WheelXSDK (sdk.ts)
\* Requests callers make (types.ts QuoteRequest); a field that is missing is
\* undefined (numbers) or NoString (strings).
QuoteRequests ==
    [from_chain : {undefined, 0, 1},
     to_chain : {0, 137},
     from_token : {"", "USDC"},
     to_token : {NoString, "WETH"},
     from_address : {"", "alice"},
     to_address : {NoString, "bob"},
     amount : {undefined, 0, -5, 100},
     slippage : {undefined, -3, 0, 50, 10000, 10001}]
RequestIds == {"", NoString, "req-1"}
\* HTTP statuses the service answers with, and the first validation message
\* of an error body (FastAPI detail[0].msg), absent when the body has none
\* or is no JSON.
Statuses == {200, 400, 422, 500}
DetailMessages == {NoString, "field required"}
\* What fetch rejects with when the transport fails.
FetchErrors == {"fetch failed"}

NoError == [kind |-> "none", message |-> "none", statusCode |-> undefined]
ErrorOf(kind, message) == [kind |-> kind, message |-> message, statusCode |-> undefined]
\* errors.ts 12-22.
APIError(message, statusCode) ==
    [kind |-> "APIError", message |-> message, statusCode |-> statusCode]
\* errors.ts 24-29.
NetworkError(message) == ErrorOf("NetworkError", message)
\* errors.ts 31-36.
ValidationError(message) == ErrorOf("ValidationError", message)
TypeError(message) == ErrorOf("TypeError", message)
\* throw new <cls>(...) in sdk.ts, with cls imported from './types': the
\* error e of the class when the module has it, else the TypeError of the
\* call.
ThrowNewError(cls, e) ==
    IF cls \in TypesExports THEN e
    ELSE TypeError("types_1." \o cls \o " is not a constructor")

IdleHttp ==
    [method |-> "none", pc |-> "idle",
     request |-> CHOOSE r \in QuoteRequests : TRUE,
     requestId |-> NoString,
     fetches |-> 0,             \* calls of fetch
     timer |-> "none",          \* the timeout timer: none, set, fired, cleared
     status |-> undefined,      \* Response.status
     rejected |-> NoError,      \* what fetchWithTimeout rejected with
     caught |-> NoError,        \* what the catch of the method caught
     error |-> NoError]         \* what the method threw

\* !x of a string: the empty string and undefined are falsy.
Blank(x) == x = "" \/ x = NoString

\* sdk.ts 105-125: the message given to the ValidationError of the check
\* that refuses the request, "none" when the request passes.
validateQuoteRequest(request) ==
    IF ~Truthy(request.from_chain) \/ ~Truthy(request.to_chain)
    THEN "Chain IDs are required"
    ELSE IF Blank(request.from_token) \/ Blank(request.to_token)
    THEN "Token addresses are required"
    ELSE IF Blank(request.from_address) \/ Blank(request.to_address)
    THEN "Addresses are required"
    ELSE IF ~Truthy(request.amount) \/ request.amount <= 0
    THEN "Valid amount is required"
    ELSE IF request.slippage # undefined
            /\ (request.slippage < 0 \/ request.slippage > 10000)
    THEN "Slippage must be between 0 and 10000 (0-100%)"
    ELSE "none"

\* sdk.ts 134-141: the timer is set and fetch called.
fetchWithTimeout(h) ==
    [h EXCEPT !.pc = "awaitFetch", !.timer = "set", !.fetches = @ + 1]

\* sdk.ts 26-48.
CallGetQuote ==
    /\ http.pc = "idle"
    /\ \E request \in QuoteRequests :
           LET h == [IdleHttp EXCEPT !.method = "getQuote", !.request = request]
               invalid == validateQuoteRequest(request)
           IN  http' = IF invalid # "none"
                       THEN [h EXCEPT !.pc = "thrown",
                                      !.error = ThrowNewError("ValidationError",
                                                    ValidationError(invalid))]
                       ELSE fetchWithTimeout(h)
    /\ UNCHANGED <<signer, call, chain, quoteApprove, sends, mainSends, go, wait>>

\* sdk.ts 76-84.
CallGetOrderStatus ==
    /\ http.pc = "idle"
    /\ \E requestId \in RequestIds :
           LET h == [IdleHttp EXCEPT !.method = "getOrderStatus", !.requestId = requestId]
           IN  http' = IF Blank(requestId)
                       THEN [h EXCEPT !.pc = "thrown",
                                      !.error = ThrowNewError("ValidationError",
                                                    ValidationError("Request ID is required"))]
                       ELSE fetchWithTimeout(h)
    /\ UNCHANGED <<signer, call, chain, quoteApprove, sends, mainSends, go, wait>>

\* sdk.ts 135: the timer fires: controller.abort().
TimerFires ==
    /\ http.pc = "awaitFetch"
    /\ http.timer = "set"
    /\ http' = [http EXCEPT !.timer = "fired"]
    /\ UNCHANGED <<signer, call, chain, quoteApprove, sends, mainSends, go, wait>>

\* Response.ok.
Ok(status) == status >= 200 /\ status <= 299

\* sdk.ts 63-70, 92-99: the catch tests `error instanceof APIError`, which
\* throws when APIError is no object; an APIError is thrown on as it is;
\* anything else becomes a NetworkError with the message of the Error caught.
Caught(h, e) ==
    [h EXCEPT !.pc = "thrown", !.caught = e,
              !.error = IF "APIError" \notin TypesExports
                        THEN TypeError("Right-hand side of 'instanceof' is not an object")
                        ELSE IF e.kind = "APIError" THEN e
                        ELSE ThrowNewError("NetworkError",
                                 NetworkError(IF e.kind = "value"
                                              THEN "Network request failed"
                                              ELSE e.message))]

\* sdk.ts 50-61, 86-90: the response is in hand.
AfterFetch(h, status) ==
    LET g == [h EXCEPT !.status = status] IN
    IF ~Ok(status)
    THEN IF h.method = "getQuote"
         THEN [g EXCEPT !.pc = "awaitErrorBody"]
         ELSE Caught(g, ThrowNewError("APIError",
                            APIError("HTTP " \o ToString(status), status)))
    ELSE [g EXCEPT !.pc = "awaitBody"]

\* sdk.ts 137-150: fetch settles and fetchWithTimeout with it: the timer is
\* cleared on either path, the response returned or the error thrown on.  An
\* aborted fetch rejects with an AbortError, for which a NetworkError is
\* made.
FetchReply ==
    /\ http.pc = "awaitFetch"
    /\ LET h == [http EXCEPT !.timer = "cleared", !.pc = "fetched"]
       IN  IF http.timer = "fired"
           THEN http' = [h EXCEPT !.rejected =
                            ThrowNewError("NetworkError", NetworkError("Request timeout"))]
           ELSE \/ \E status \in Statuses : http' = [h EXCEPT !.status = status]
                \/ \E m \in FetchErrors : http' = [h EXCEPT !.rejected = TypeError(m)]
    /\ UNCHANGED <<signer, call, chain, quoteApprove, sends, mainSends, go, wait>>

\* sdk.ts 42-50, 84-86: the await of fetchWithTimeout resumes in the method,
\* with the response or in its catch.
FetchSettled ==
    /\ http.pc = "fetched"
    /\ http' = IF http.rejected = NoError
               THEN AfterFetch(http, http.status)
               ELSE Caught(http, http.rejected)
    /\ UNCHANGED <<signer, call, chain, quoteApprove, sends, mainSends, go, wait>>

\* sdk.ts 51-58: the body of the error response is read for detail[0].msg.
ErrorBodyReply ==
    /\ http.pc = "awaitErrorBody"
    /\ \E d \in DetailMessages :
           LET errorMessage == IF Blank(d) THEN "HTTP " \o ToString(http.status) ELSE d
           IN  http' = Caught(http, ThrowNewError("APIError",
                                        APIError(errorMessage, http.status)))
    /\ UNCHANGED <<signer, call, chain, quoteApprove, sends, mainSends, go, wait>>

\* sdk.ts 61-62, 90-91: response.json() of the success body.
BodyReply ==
    /\ http.pc = "awaitBody"
    /\ \/ http' = [http EXCEPT !.pc = "returned"]
       \/ http' = Caught(http, ErrorOf("SyntaxError", "Unexpected token"))
    /\ UNCHANGED <<signer, call, chain, quoteApprove, sends, mainSends, go, wait>>

\* The caller takes the response (or the error).
HttpReturn ==
    /\ http.pc \in {"returned", "thrown"}
    /\ http' = IdleHttp
    /\ UNCHANGED <<signer, call, chain, quoteApprove, sends, mainSends, go, wait>>

\* ---------------------------------------------------- the fill, one call
Init ==
    /\ signer \in {NoSigner, "alice"}
    /\ call = [c \in Calls |-> IdleCall]
    /\ \E n \in 0..MaxTxCount, m \in 0..MaxTxCount :
           /\ txCount = [a \in Addresses |-> IF a = "alice" THEN n ELSE 0]
           /\ mempool = [a \in Addresses |-> IF a = "alice" THEN m ELSE 0]
    /\ quoteApprove = FALSE
    /\ approval = "none"
    /\ sends = 0
    /\ mainSends = 0
    /\ go = GoIdle
    /\ receipt = NoReceipt
    /\ wait = IdleWait
    /\ http = IdleHttp

Next ==
    \/ CallBuild(1)
    \/ NonceReply(1)
    \/ FeeReply(1)
    \/ GasReply(1)
    \/ Return(1)

Spec == Init /\ [][Next]_vars

\* ------------------------------------------ the send path, with approval
InitExec ==
    /\ signer \in {NoSigner} \cup Signers
    /\ call = [c \in Calls |-> IdleCall]
    /\ \E n \in 0..MaxTxCount, m \in 0..MaxTxCount :
           /\ txCount = [a \in Addresses |-> IF a = "alice" THEN n ELSE 0]
           /\ mempool = [a \in Addresses |-> IF a = "alice" THEN m ELSE 0]
    /\ quoteApprove \in BOOLEAN
    /\ approval = "none"
    /\ sends = 0
    /\ mainSends = 0
    /\ go = GoIdle
    /\ receipt = NoReceipt
    /\ wait = IdleWait
    /\ http = IdleHttp

NextExec ==
    \/ \E s \in Signers : signer # s /\ setSigner(s)
    \/ CallExecute(1)
    \/ CallSignAndSend(1)
    \/ NonceReply(1)
    \/ FeeReply(1)
    \/ GasReply(1)
    \/ ExecuteSend(1)
    \/ SendReply(1)
    \/ Return(1)
    \/ MineApproval
    \/ Mine

SpecExec == InitExec /\ [][NextExec]_vars

\* --------------------------------------------- the same fill, twice
\* Quotes and overrides of the repeated fill.
TwiceTxDatas == {td \in TxDatas : td.chainId = 1}
TwiceConfigs ==
    {cfg \in Configs :
        /\ cfg.gasLimit # 0 /\ cfg.nonce # 0
        /\ cfg.maxFeePerGas # 0 /\ cfg.maxPriorityFeePerGas # 0}

CallBuildFirst ==
    /\ call[1].pc = "idle"
    /\ call[2].pc = "idle"
    /\ \E td \in TwiceTxDatas, cfg \in TwiceConfigs :
           call' = [call EXCEPT ![1] = BuildFrame(td, "alice", cfg)]
    /\ UNCHANGED <<signer, chain, quoteApprove, sends, mainSends, go, wait, http>>

\* The caller keeps the first result and calls buildTransaction again with
\* the very same txData, fromAddress and config.
CallBuildAgain ==
    /\ call[1].pc \in {"built", "failed"}
    /\ call[2].pc = "idle"
    /\ call' = [call EXCEPT ![2] =
                   BuildFrame(call[1].txData, call[1].fromAddress, call[1].config)]
    /\ UNCHANGED <<signer, chain, quoteApprove, sends, mainSends, go, wait, http>>

NextTwice ==
    \/ \E s \in Signers : signer # s /\ setSigner(s)
    \/ CallBuildFirst
    \/ CallBuildAgain
    \/ \E c \in Calls : NonceReply(c)
    \/ \E c \in Calls : FeeReply(c)
    \/ \E c \in Calls : GasReply(c)
    \/ Mine

SpecTwice == Init /\ [][NextTwice]_vars

\* ------------------------------------------------------ the Go builders
NextGo ==
    \/ GoCallBuildTransaction
    \/ GoCallBuildEIP1559Transaction
    \/ GoNonceReply
    \/ GoGasPriceReply
    \/ GoChainIDReply
    \/ GoTipReply
    \/ GoHeaderReply
    \/ GoReturn
    \/ Accept
    \/ Mine

SpecGo == Init /\ [][NextGo]_vars

\* ------------------------------------------------- the waits
InitWait ==
    /\ signer = "alice"
    /\ call = [c \in Calls |-> IdleCall]
    /\ txCount = [a \in Addresses |-> 0]
    /\ mempool = [a \in Addresses |-> 0]
    /\ quoteApprove = FALSE
    /\ approval = "none"
    /\ sends = 0
    /\ mainSends = 0
    /\ go = GoIdle
    /\ receipt = NoReceipt
    /\ wait = IdleWait
    /\ http = IdleHttp

NextWait ==
    \/ GoCallWaitForTransaction
    \/ Tick
    \/ Cancel
    \/ GoSelect
    \/ GoReceiptReply
    \/ CallWaitForTransaction
    \/ WaitSettles
    \/ WaitTimesOut
    \/ CallGetTransactionStatus
    \/ ReceiptReply
    \/ WaitReturn
    \/ MineTx
    \/ MineBlock

SpecWait == InitWait /\ [][NextWait]_vars

\* Time passes, the select takes a ready case, queries are answered and the
\* provider's promise settles; the chain need never mine the transaction.
SpecWaitLive ==
    /\ InitWait /\ [][NextWait]_vars
    /\ WF_vars(Tick)
    /\ WF_vars(GoSelect)
    /\ WF_vars(GoReceiptReply)
    /\ WF_vars(WaitSettles)
    /\ WF_vars(WaitTimesOut)
    /\ WF_vars(ReceiptReply)

\* ------------------------------------------------- the submits
NextSubmit ==
    \/ \E s \in Signers : signer # s /\ setSigner(s)
    \/ CallExecute(1)
    \/ CallSignAndSend(1)
    \/ NonceReply(1)
    \/ FeeReply(1)
    \/ GasReply(1)
    \/ ExecuteSend(1)
    \/ SendReply(1)
    \/ Return(1)
    \/ MineApproval
    \/ Mine
    \/ GoCallSignAndSendTransaction
    \/ GoChainIDReply
    \/ GoSendReply
    \/ GoReturn

SpecSubmit == InitExec /\ [][NextSubmit]_vars

\* ------------------------------------- the fill of either executor
\* One call at a time, of the TypeScript or of the Go executor.
NextFill ==
    \/ go.state = "idle" /\ CallBuild(1)
    \/ NonceReply(1)
    \/ FeeReply(1)
    \/ GasReply(1)
    \/ Return(1)
    \/ call[1].pc = "idle" /\ GoCallBuildTransaction
    \/ call[1].pc = "idle" /\ GoCallBuildEIP1559Transaction
    \/ GoNonceReply
    \/ GoGasPriceReply
    \/ GoChainIDReply
    \/ GoTipReply
    \/ GoHeaderReply
    \/ GoReturn

SpecFill == Init /\ [][NextFill]_vars

\* ------------------------------------------------ concurrent fills
\* Two buildTransaction calls in flight at once, interleaved at their awaits.
CallBuildConcurrently(c) ==
    /\ call[c].pc = "idle"
    /\ \E td \in ExecTxDatas, from \in Addresses, cfg \in ExecConfigs :
           call' = [call EXCEPT ![c] = BuildFrame(td, from, cfg)]
    /\ UNCHANGED <<signer, chain, quoteApprove, sends, mainSends, go, wait, http>>

NextConc ==
    \/ \E c \in Calls : CallBuildConcurrently(c)
    \/ \E c \in Calls : NonceReply(c)
    \/ \E c \in Calls : FeeReply(c)
    \/ \E c \in Calls : GasReply(c)
    \/ Mine

SpecConc == Init /\ [][NextConc]_vars

\* ------------------------------------- an execute and a change of signer
\* The application installs another wallet while an execute is in flight:
\* setSigner runs between two awaits of the call.
NextSwap ==
    \/ \E s \in Addresses : signer # s /\ setSigner(s)
    \/ CallExecute(1)
    \/ NonceReply(1)
    \/ FeeReply(1)
    \/ GasReply(1)
    \/ ExecuteSend(1)
    \/ SendReply(1)
    \/ Return(1)
    \/ Mine

SpecSwap == InitExec /\ [][NextSwap]_vars

\* ------------------------------------- an executor made without a signer
\* The three calls that need the signer, on an executor that may have none
\* yet.  One call is in flight at a time; the caller may still hold the
\* error of a call that was refused for want of a signer while it makes the
\* next.
\* transaction.ts 11-18: new TransactionExecutor(provider), the signer left
\* out; the quote in hand asks for an approval.
InitSigner ==
    /\ signer = NoSigner
    /\ call = [c \in Calls |-> IdleCall]
    /\ txCount = [a \in Addresses |-> 0]
    /\ mempool = [a \in Addresses |-> 0]
    /\ quoteApprove = TRUE
    /\ approval = "none"
    /\ sends = 0
    /\ mainSends = 0
    /\ go = GoIdle
    /\ receipt = NoReceipt
    /\ wait = IdleWait
    /\ http = IdleHttp

OthersRefused(c) ==
    \A d \in Calls \ {c} :
        \/ call[d].pc = "idle"
        \/ call[d].pc = "failed" /\ call[d].asked = NoAsked /\ call[d].sendCalls = 0

NextSigner ==
    \/ \E s \in Signers : signer # s /\ setSigner(s)
    \/ \E c \in Calls : OthersRefused(c) /\ CallBuildConcurrently(c)
    \/ \E c \in Calls : OthersRefused(c) /\ CallExecute(c)
    \/ \E c \in Calls : OthersRefused(c) /\ CallSignAndSend(c)
    \/ \E c \in Calls : NonceReply(c)
    \/ \E c \in Calls : FeeReply(c)
    \/ \E c \in Calls : GasReply(c)
    \/ \E c \in Calls : ExecuteSend(c)
    \/ \E c \in Calls : SendReply(c)
    \/ \E c \in Calls : Return(c)

SpecSigner == InitSigner /\ [][NextSigner]_vars

\* ------------------------------------------------ the quote service
NextHttp ==
    \/ CallGetQuote
    \/ CallGetOrderStatus
    \/ TimerFires
    \/ FetchReply
    \/ FetchSettled
    \/ ErrorBodyReply
    \/ BodyReply
    \/ HttpReturn

SpecHttp == InitWait /\ [][NextHttp]_vars

\* ------------------------------------------------ properties of the fill
Built(c) == call[c].pc = "built"
Populated(x) == x # undefined /\ x # null
NoFeeOverride(cfg) == cfg.maxFeePerGas = undefined /\ cfg.maxPriorityFeePerGas = undefined
IsDynamic(t) ==
    /\ Populated(t.maxFeePerGas)
    /\ Populated(t.maxPriorityFeePerGas)
    /\ ~Populated(t.gasPrice)
IsLegacy(t) ==
    /\ Populated(t.gasPrice)
    /\ ~Populated(t.maxFeePerGas)
    /\ ~Populated(t.maxPriorityFeePerGas)

\* C1: no transaction buildTransaction returns has both gasPrice and
\* maxFeePerGas populated.
C1_NeverGasPriceWithMaxFee ==
    \A c \in Calls :
        Built(c) =>
            ~(Populated(call[c].transaction.gasPrice)
              /\ Populated(call[c].transaction.maxFeePerGas))

\* C6 (as claimed): the gas limit is config.gasLimit whenever the caller
\* supplies one, whatever its value, else the quote's gas when the quote
\* supplies one, else the estimate for the quote's to/value/data from the
\* sender; the chain is asked for an estimate in the third case only.
C6_GasLimitAnySuppliedValue ==
    \A c \in Calls :
        LET f == call[c] IN
        /\ Built(c) =>
              f.transaction.gasLimit =
                  IF f.config.gasLimit # undefined THEN f.config.gasLimit
                  ELSE IF f.txData.gas # undefined THEN f.txData.gas
                  ELSE f.answers.gasLimit
        /\ f.asked.gas > 0 =>
              f.config.gasLimit = undefined /\ f.txData.gas = undefined

\* C6 (amended): the gas limit is config.gasLimit whenever the caller
\* supplies a non-zero one, else the quote's gas when that is non-zero, else
\* the chain's estimate for the quote's to/value/data with from = sender;
\* the chain is asked for an estimate, once, in the third case only.
C6_GasLimitPrecedence ==
    \A c \in Calls :
        LET f == call[c] IN
        /\ Built(c) =>
              /\ f.transaction.gasLimit =
                     IF Truthy(f.config.gasLimit) THEN f.config.gasLimit
                     ELSE IF Truthy(f.txData.gas) THEN f.txData.gas
                     ELSE f.answers.gasLimit
              /\ f.asked.gas =
                     IF Truthy(f.config.gasLimit) \/ Truthy(f.txData.gas) THEN 0 ELSE 1
        /\ f.asked.gas > 0 =>
              /\ ~Truthy(f.config.gasLimit) /\ ~Truthy(f.txData.gas)
              /\ f.gasReq.tx.to = f.txData.to
              /\ f.gasReq.tx.value = f.txData.value
              /\ f.gasReq.tx.data = f.txData.data
              /\ f.gasReq.from = f.fromAddress

\* The override scenario: gasLimit 21000 against a quote gas of 50000.
C6_Witness ==
    \E c \in Calls :
        /\ Built(c)
        /\ call[c].config.gasLimit = 21000
        /\ call[c].txData.gas = 50000
        /\ call[c].transaction.gasLimit = 21000

\* C7: the nonce is config.nonce whenever one is supplied (0 included), with
\* no nonce query; otherwise it is the sender's pending transaction count:
\* mined transactions plus those submitted and not yet mined.
C7_NonceOverrideElsePendingCount ==
    \A c \in Calls :
        LET f == call[c] IN
        Built(c) =>
            IF f.config.nonce # undefined
            THEN f.transaction.nonce = f.config.nonce /\ f.asked.nonce = 0
            ELSE f.transaction.nonce = txCount[f.fromAddress] + mempool[f.fromAddress]

\* C8: a returned transaction has exactly one fee model populated, the
\* quote's chainId or else the connected chain's, a nonce and a gas limit.
C8_FilledTransactionComplete ==
    \A c \in Calls :
        LET f == call[c] IN
        Built(c) =>
            /\ IsLegacy(f.transaction) \/ IsDynamic(f.transaction)
            /\ f.transaction.chainId =
                   IF f.txData.chainId # undefined THEN f.txData.chainId
                   ELSE NetworkChainId
            /\ f.transaction.nonce # undefined
            /\ f.transaction.gasLimit # undefined

\* The fee fields the fee model selection chose, before caller overrides.
ChosenFee(f, field) ==
    IF Truthy(f.txData.maxFeePerGas) /\ Truthy(f.txData.maxPriorityFeePerGas)
    THEN f.txData[field]
    ELSE undefined

\* C9: each of maxFeePerGas and maxPriorityFeePerGas carries the caller's
\* config value when one is supplied, and else the value chosen from the
\* quote or the chain.
C9_FeeOverridesFieldByField ==
    \A c \in Calls :
        LET f == call[c] IN
        Built(c) =>
            \A field \in {"maxFeePerGas", "maxPriorityFeePerGas"} :
                f.transaction[field] =
                    IF f.config[field] # undefined THEN f.config[field]
                    ELSE ChosenFee(f, field)

\* ------------------------------------------ properties of the fee model
QuoteDynamic(td) == Truthy(td.maxFeePerGas) /\ Truthy(td.maxPriorityFeePerGas)
QuoteNoFees(td) == td.maxFeePerGas = undefined /\ td.maxPriorityFeePerGas = undefined
GoReturned(m) == go.state = "returned" /\ go.method = m

\* The TypeScript half of C4: buildTransaction takes the quote's two fees
\* verbatim and does not call getFeeData.
TsDynamicVerbatim ==
    \A c \in Calls :
        LET f == call[c] IN
        QuoteDynamic(f.txData) =>
            /\ f.asked.fee = 0
            /\ (Built(c) /\ NoFeeOverride(f.config)) =>
                   /\ IsDynamic(f.transaction)
                   /\ f.transaction.maxFeePerGas = f.txData.maxFeePerGas
                   /\ f.transaction.maxPriorityFeePerGas = f.txData.maxPriorityFeePerGas

\* The Go half of C4, for BuildEIP1559Transaction.
GoDynamicVerbatim ==
    (go.method = "BuildEIP1559Transaction" /\ QuoteDynamic(go.txData)) =>
        /\ go.asked.tip = 0 /\ go.asked.header = 0 /\ go.asked.gasPrice = 0
        /\ go.state = "returned" =>
               /\ IsDynamic(go.tx)
               /\ go.tx.maxFeePerGas = go.txData.maxFeePerGas
               /\ go.tx.maxPriorityFeePerGas = go.txData.maxPriorityFeePerGas

\* C4: a quote with both dynamic fee fields present and non-zero is built
\* as a dynamic-fee transaction with the quote's two values verbatim (absent
\* caller overrides), and no fee suggestion is asked of the chain.
C4_QuoteFeesVerbatimNoFeeQuery == TsDynamicVerbatim /\ GoDynamicVerbatim

\* The fee fields the chain's suggestions give: 2 * baseFee + priorityFee.
SuggestedFees(t, fs) ==
    /\ IsDynamic(t)
    /\ t.maxPriorityFeePerGas = fs.priorityFee
    /\ t.maxFeePerGas = 2 * fs.baseFee + fs.priorityFee

\* The Go half of C5, for BuildEIP1559Transaction.
GoSuggestedFees ==
    (GoReturned("BuildEIP1559Transaction") /\ QuoteNoFees(go.txData)) =>
        SuggestedFees(go.tx, go.fee)

\* C5: a quote with no fee fields is built as a dynamic-fee transaction with
\* maxPriorityFeePerGas the chain's suggestion and maxFeePerGas equal to
\* 2 * baseFee + priorityFee, for the values the chain gave during the call.
C5_NoFeeFieldsUsesChainSuggestion ==
    /\ \A c \in Calls :
           (Built(c) /\ QuoteNoFees(call[c].txData) /\ NoFeeOverride(call[c].config)) =>
               SuggestedFees(call[c].transaction, call[c].answers.fee)
    /\ GoSuggestedFees

\* C10: two buildTransaction calls with identical txData, sender and config,
\* to which the chain gave identical answers, return identical transactions.
C10_FillDeterministic ==
    (/\ Built(1) /\ Built(2)
     /\ call[1].txData = call[2].txData
     /\ call[1].fromAddress = call[2].fromAddress
     /\ call[1].config = call[2].config
     /\ call[1].answers = call[2].answers)
    => call[1].transaction = call[2].transaction

\* Both fills done on the same answers, the nonce and gas price among them.
C10_Witness ==
    /\ Built(1) /\ Built(2)
    /\ call[1].answers = call[2].answers
    /\ call[1].answers.nonce # undefined
    /\ call[1].answers.fee # NoFeeState
    /\ call[1].transaction = call[2].transaction
    /\ call[1].transaction.nonce = call[1].answers.nonce

\* ------------------------------------- properties of a failed chain query
\* The field of the transaction a query of buildTransaction fills.
FieldOf(query) ==
    IF query = "nonce" THEN "nonce" ELSE IF query = "fee" THEN "gasPrice" ELSE "gasLimit"
\* The queries that come after a query, in program order.
TsLater(query) ==
    IF query = "nonce" THEN {"fee", "gas"} ELSE IF query = "fee" THEN {"gas"} ELSE {}
GoLater(query) ==
    IF query = "nonce" THEN {"chainId", "gasPrice", "tip", "header"}
    ELSE IF query = "chainId" THEN {"tip", "header"}
    ELSE IF query = "tip" THEN {"header"}
    ELSE {}
GoMessage(query) ==
    IF query = "nonce" THEN "failed to get nonce"
    ELSE IF query = "chainId" THEN "failed to get chain ID"
    ELSE IF query = "gasPrice" THEN "failed to get gas price"
    ELSE IF query = "tip" THEN "failed to get gas tip cap"
    ELSE "failed to get header"

\* C21: when a chain query of a fill fails, the fill fails with an error
\* that carries the query's own error, returns no transaction, leaves the
\* field of the failed query without a value, has asked the failed query
\* once and asks no later query.
C21_FailedQueryFailsTheFill ==
    /\ \A c \in Calls :
           LET f == call[c] IN
           f.failed # "none" =>
               /\ f.pc = "failed"
               /\ f.error = IF f.failed = "gas"
                            THEN "TransactionError: Failed to estimate gas: " \o f.cause
                            ELSE f.cause
               /\ f.transaction[FieldOf(f.failed)] = undefined
               /\ f.asked[f.failed] = 1
               /\ \A q \in TsLater(f.failed) : f.asked[q] = 0
    /\ go.failed # "none" =>
           /\ go.state = "error"
           /\ go.tx = NoTransaction
           /\ go.err = GoMessage(go.failed) \o ": " \o go.cause
           /\ go.asked[go.failed] = 1
           /\ \A q \in GoLater(go.failed) : go.asked[q] = 0

\* The estimate of a call that would revert was refused.
C21_Witness ==
    \E c \in Calls :
        /\ call[c].pc = "failed"
        /\ call[c].failed = "gas"
        /\ call[c].cause = "execution reverted"
        /\ call[c].asked.gas = 1

\* ------------------------------------- properties of concurrent fills
\* What buildTransaction returns when it runs alone, from its arguments and
\* the answers of the chain: the call's segments, one after the other.
Alone(f) ==
    LET s0 == BuildFrame(f.txData, f.fromAddress, f.config)
        s1 == IF s0.pc = "awaitNonce"
              THEN AfterNonce([s0 EXCEPT !.transaction.nonce = f.answers.nonce,
                                         !.answers.nonce = f.answers.nonce])
              ELSE s0
        s2 == IF s1.pc = "awaitFee"
              THEN AfterFee([s1 EXCEPT !.transaction.gasPrice = f.answers.fee.gasPrice,
                                       !.answers.fee = f.answers.fee])
              ELSE s1
        s3 == IF s2.pc = "awaitGas"
              THEN ApplyOverrides([s2 EXCEPT !.transaction.gasLimit = f.answers.gasLimit,
                                             !.answers.gasLimit = f.answers.gasLimit])
              ELSE s2
    IN  s3

\* C22: of two interleaved fills for different senders each returns the
\* transaction it returns when run alone on the same answers of the chain,
\* and no step of a fill writes the signer or the chain.
C22_IndependentSendersDoNotInterfere ==
    /\ [](  (Built(1) /\ Built(2) /\ call[1].fromAddress # call[2].fromAddress)
          => \A c \in Calls :
                 /\ Alone(call[c]).pc = "built"
                 /\ call[c].transaction = Alone(call[c]).transaction)
    /\ [][call' # call => UNCHANGED <<signer, txCount, mempool>>]_vars

\* Both fills asked the chain for their nonce and got different counts.
C22_Witness ==
    /\ Built(1) /\ Built(2)
    /\ call[1].fromAddress # call[2].fromAddress
    /\ call[1].asked.nonce = 1 /\ call[2].asked.nonce = 1
    /\ call[1].transaction.nonce # call[2].transaction.nonce
    /\ call[1].asked.gas = 1 /\ call[2].asked.gas = 1

\* C23: the nonce a fill without override gets is the sender's transaction
\* count at the time of the answer, whatever other fills for that sender are
\* in flight or done; two such fills can end with the same nonce.
C23_NonceNotGuarded ==
    [][\A c \in Calls :
          (call[c].pc = "awaitNonce" /\ call'[c].pc \notin {"awaitNonce", "failed"})
              => call'[c].transaction.nonce = txCount[call[c].fromAddress]]_vars

\* Two fills for one sender, neither with an override, with one nonce.
C23_Witness ==
    /\ Built(1) /\ Built(2)
    /\ call[1].fromAddress = call[2].fromAddress
    /\ call[1].config.nonce = undefined /\ call[2].config.nonce = undefined
    /\ call[1].asked.nonce = 1 /\ call[2].asked.nonce = 1
    /\ call[1].transaction.nonce = call[2].transaction.nonce

\* ------------------------------------- properties of the quote service
\* The requests the validation is to refuse.
BadQuoteRequest(r) ==
    \/ r.from_chain \in {undefined, 0} \/ r.to_chain \in {undefined, 0}
    \/ r.from_token \in {"", NoString} \/ r.to_token \in {"", NoString}
    \/ r.from_address \in {"", NoString} \/ r.to_address \in {"", NoString}
    \/ r.amount = undefined \/ r.amount <= 0
    \/ (r.slippage # undefined /\ (r.slippage < 0 \/ r.slippage > 10000))
BadInput ==
    \/ http.method = "getQuote" /\ BadQuoteRequest(http.request)
    \/ http.method = "getOrderStatus" /\ http.requestId \in {"", NoString}

\* C24: a getQuote with a missing or zero chain id, an empty token or
\* address, an amount missing or <= 0 or a slippage outside 0..10000, and a
\* getOrderStatus with an empty request id, fail with ValidationError with
\* no HTTP request sent; every other call sends exactly one.
C24_ValidationBeforeNetwork ==
    http.method # "none" =>
        IF BadInput
        THEN /\ http.pc = "thrown"
             /\ http.error.kind = "ValidationError"
             /\ http.fetches = 0
        ELSE /\ http.fetches = 1
             /\ http.error.kind # "ValidationError"

\* A slippage above 10000 refused, nothing sent: the call has thrown the
\* TypeError of the ValidationError that the module does not have.
C24_Witness ==
    /\ http.method = "getQuote"
    /\ http.request.slippage = 10001
    /\ http.request.amount = 100
    /\ http.pc = "thrown"
    /\ http.error = TypeError("types_1.ValidationError is not a constructor")
    /\ http.fetches = 0

\* C25: a call that fails after validation throws an APIError with the
\* response's status code when the response was not OK and a NetworkError
\* in every other case (transport error, timeout, unparsable body); an
\* APIError caught is thrown on unchanged; once fetch has settled the
\* timeout timer is cleared.
C25_FailuresMappedToTwoKinds ==
    /\ (http.pc = "thrown" /\ ~BadInput) =>
           IF http.status # undefined /\ ~Ok(http.status)
           THEN /\ http.error.kind = "APIError"
                /\ http.error.statusCode = http.status
                /\ http.error = http.caught
           ELSE /\ http.error.kind = "NetworkError"
                /\ http.error.message = http.caught.message
    /\ (http.fetches > 0 /\ http.pc # "awaitFetch") => http.timer = "cleared"
    /\ http.pc = "awaitFetch" => http.timer \in {"set", "fired"}

\* An error response 422 with a validation detail: the call has thrown the
\* TypeError of the catch's instanceof test, with no status code.
C25_Witness ==
    /\ http.method = "getQuote"
    /\ http.pc = "thrown"
    /\ http.status = 422
    /\ http.caught = TypeError("types_1.APIError is not a constructor")
    /\ http.error = TypeError("Right-hand side of 'instanceof' is not an object")
    /\ http.error.statusCode = undefined
    /\ http.timer = "cleared"

\* ---------------------------------------------- properties of the waits
GoWait == wait.method = "WaitForTransaction"
TsWait == wait.method = "waitForTransaction"
\* The wait has returned a receipt to the caller as its success.
ReturnedReceipt ==
    /\ GoWait \/ TsWait
    /\ wait.state = "returned"
    /\ wait.err = "none"
    /\ wait.result # NoReceipt
\* The query counter still counts (it has not saturated).
Counted == wait.queries < MaxPolls

\* C11: when the receipt was not found for the first k queries and the next
\* one finds it with success status, WaitForTransaction returns it after
\* exactly k + 1 receipt queries, and a wait that has returned makes no
\* further query.
C11_ConfirmedAfterKPlusOneQueries ==
    /\ [](  (GoWait /\ ReturnedReceipt /\ wait.result.status = 1 /\ Counted)
          => (wait.queries = wait.notFound + 1 /\ wait.rpcErrors = 0))
    /\ [][wait.state = "returned" => (wait' = wait \/ wait' = IdleWait)]_vars

\* Three queries not found, the fourth finds the successful receipt with a
\* block on top of it.
C11_Witness ==
    /\ GoWait /\ ReturnedReceipt
    /\ wait.result.status = 1
    /\ wait.result.depth >= 1
    /\ wait.notFound = 3
    /\ wait.queries = 4

\* The wait ended because its timeout elapsed.
TimedOut ==
    \/ GoWait /\ wait.state = "returned" /\ wait.branch = "done"
       /\ wait.done = "context deadline exceeded"
    \/ TsWait /\ wait.state \in {"returned", "thrown"}
       /\ wait.cause = "timeout"

\* C12: a wait whose timeout of n intervals elapses with no receipt returns
\* a timed-out result, not an error or exception, after exactly n queries.
C12_TimeoutIsAResultAfterNPolls ==
    TimedOut =>
        /\ wait.state = "returned"
        /\ wait.err = "none"
        /\ GoWait => wait.queries = wait.deadline

\* C13: an absent receipt is Pending and never an error: no wait fails
\* because the receipt is not found, and a status query of a transaction
\* without receipt reports 'pending'.
C13_AbsentReceiptIsPending ==
    /\ wait.err # "failed to get transaction receipt: not found"
    /\ ~(wait.state = "thrown" /\ wait.cause = "Transaction receipt not found")
    /\ (wait.method = "getTransactionStatus" /\ wait.state = "returned"
        /\ wait.result = NoReceipt) => wait.value = "pending"

\* C14: a receipt with failure status is never returned as a success by a
\* wait, and getTransactionStatus says 'confirmed' only for status 1.
C14_FailedReceiptNeverSuccess ==
    /\ ReturnedReceipt => wait.result.status # 0
    /\ (wait.method = "getTransactionStatus" /\ wait.value = "confirmed")
           => wait.result.status = 1

\* The wait ended with the error of a failed receipt query.
PollError ==
    /\ GoWait \/ TsWait
    /\ wait.state \in {"returned", "thrown"}
    /\ \E m \in RpcErrors :
           \/ wait.err = "failed to get transaction receipt: " \o m
           \/ TsWait /\ wait.cause = m

\* C15: a poll error is surfaced only after more than one consecutive RPC
\* failure; a single failure is retried.
C15_RpcErrorRetried == PollError => wait.rpcErrors > 1

Waiting == wait.state \in {"select", "querying", "awaitWait", "awaitReceipt"}

\* C16: every wait eventually returns a result or an error, whatever the
\* chain does and whatever context the caller gave.
C16_WaitTerminates == Waiting ~> (wait.state \in {"returned", "thrown"})

\* The blocks past the inclusion block the caller asked for (default 1).
Required == IF TsWait THEN wait.confirmations ELSE 1

\* C17: a receipt is returned as confirmed only once at least the required
\* number of blocks has been mined past its inclusion block.
C17_ConfirmedOnlyAtDepth ==
    ReturnedReceipt => wait.result.depth >= Required

\* C18: a WaitForTransaction that sees its context cancelled returns
\* ctx.Err() and no receipt and asks for no receipt after that; a wait that
\* returns after the cancellation returns the cancellation and no receipt;
\* no step of a wait writes to the chain.
C18_CancelStopsAtBoundary ==
    /\ [](  (GoWait /\ wait.branch = "done")
          => (wait.state = "returned" /\ wait.result = NoReceipt
              /\ wait.err = wait.done))
    /\ [](  (GoWait /\ wait.state = "returned" /\ wait.done = "context canceled")
          => (wait.result = NoReceipt
              /\ wait.err \in {"context canceled",
                     "failed to get transaction receipt: context canceled"}))
    /\ [][wait' # wait => UNCHANGED <<txCount, mempool, sends, mainSends>>]_vars

\* Cancelled between polls, with the transaction mined meanwhile.
C18_Witness ==
    /\ GoWait
    /\ wait.state = "returned"
    /\ wait.branch = "done"
    /\ wait.err = "context canceled"
    /\ wait.queries >= 1
    /\ receipt # NoReceipt

\* ----------------------------------------------- properties of the send
\* C2: when the quote carries an approval action, the main transaction is
\* submitted only once the approval has been submitted and confirmed.
C2_MainSendOnlyAfterApprovalConfirmed ==
    [][(mainSends' > mainSends /\ quoteApprove) => approval = "confirmed"]_vars

\* C3: once the approval has confirmed as failed, the signer is never
\* invoked for the main transaction.
C3_NoMainSendAfterFailedApproval ==
    [][approval = "failed" => mainSends' = mainSends]_vars

\* --------------------------------------------- properties of the submit
\* The frame is a call that entered signAndSendTransaction and has ended.
SubmitEnded(f) ==
    /\ f.method = "signAndSendTransaction" \/ f.sentBy # NoSigner
    /\ f.pc \in {"sent", "failed"}
GoSubmitEnded ==
    go.method = "SignAndSendTransaction" /\ go.state \in {"returned", "error"}

\* C19 (as claimed): every submit call, failed ones included, has invoked
\* the signing capability exactly once.
C19_SignsExactlyOncePerCall ==
    /\ \A c \in Calls : SubmitEnded(call[c]) => call[c].sendCalls = 1
    /\ GoSubmitEnded => go.signs = 1

\* C19 (amended): a submit call invokes the signing capability at most once
\* and broadcasts at most once; exactly once each in a call that returns a
\* hash; not at all only in a call that fails before signing (no signer, a
\* key that does not parse, a failed chain id query).
C19_SignsAtMostOncePerCall ==
    /\ \A c \in Calls :
           LET f == call[c] IN
           /\ f.sendCalls <= 1
           /\ f.pc \in {"awaitSend", "sent"} => f.sendCalls = 1
           /\ (SubmitEnded(f) /\ f.sendCalls = 0) =>
                  f.error = ThrowNew("TransactionError",
                                     "Signer is required for transaction execution")
    /\ go.signs <= 1
    /\ go.broadcasts <= go.signs
    /\ (GoSubmitEnded /\ go.state = "returned") =>
           go.signs = 1 /\ go.broadcasts = 1
    /\ (GoSubmitEnded /\ go.signs = 0) =>
           \/ go.err = "failed to parse private key: " \o HexToECDSAError(go.privateKey)
           \/ \E m \in RpcErrors : go.err = "failed to get chain ID: " \o m

\* One submit of each executor has gone through, each on one signature.
C19_Witness ==
    /\ \E c \in Calls :
           /\ call[c].pc = "sent"
           /\ call[c].sendCalls = 1
           /\ call[c].hash = TxHash
    /\ GoSubmitEnded
    /\ go.state = "returned"
    /\ go.signs = 1

\* C20: when the node rejects the broadcast, the submit fails with an error
\* that carries the node's reason, gives no transaction hash, and has made
\* one broadcast attempt only.
C20_RejectionCarriesReasonNoRetry ==
    /\ \A c \in Calls :
           LET f == call[c] IN
           (f.pc = "failed" /\ f.reject.isError) =>
               /\ f.error = "TransactionError: Failed to send transaction: "
                            \o f.reject.message
               /\ f.hash = NoString
               /\ f.sendCalls = 1
    /\ (go.method = "SignAndSendTransaction" /\ go.reject # "none") =>
           /\ go.state = "error"
           /\ go.err = "failed to send transaction: " \o go.reject
           /\ go.hash = ZeroHash
           /\ go.broadcasts = 1

\* The node has refused a broadcast of each executor.
C20_Witness ==
    /\ \E c \in Calls :
           /\ call[c].pc = "failed"
           /\ call[c].reject.message = "nonce too low"
           /\ call[c].sendCalls = 1
    /\ go.state = "error"
    /\ go.reject = "replacement transaction underpriced"

\* --------------------------------------------- properties of the execute
Executing(f) == f.method = "executeQuoteTransaction"
\* The provider queries the build of f's arguments makes when none fails.
QueriesOf(f) ==
    [nonce |-> IF f.config.nonce = undefined THEN 1 ELSE 0,
     fee   |-> IF Truthy(f.txData.maxFeePerGas) /\ Truthy(f.txData.maxPriorityFeePerGas)
               THEN 0 ELSE 1,
     gas   |-> IF Truthy(f.config.gasLimit) \/ Truthy(f.txData.gas) THEN 0 ELSE 1]

\* C26: executeQuoteTransaction invokes the signer's send only once its build
\* has returned: all of the build's provider queries have been made by then
\* and none is made after, the transaction handed to the signer is the one
\* the build returned, and a call whose build failed never invokes the send.
C26_SendOnlyAfterSuccessfulBuild ==
    /\ [](\A c \in Calls :
            LET f == call[c] IN
            Executing(f) =>
                /\ f.sendCalls > 0 =>
                       /\ f.failed = "none"
                       /\ f.asked = QueriesOf(f)
                       /\ f.sentTx = f.transaction
                /\ f.failed # "none" => f.sendCalls = 0 /\ f.sentTx = NoTransaction)
    /\ [][\A c \in Calls :
             /\ (Executing(call[c]) /\ call[c].sendCalls = 0 /\ call'[c].sendCalls > 0) =>
                    /\ call[c].pc = "built"
                    /\ call'[c].sentTx = call[c].transaction
             /\ (Executing(call[c]) /\ call[c].sendCalls > 0 /\ call'[c].pc # "idle") =>
                    /\ call'[c].asked = call[c].asked
                    /\ call'[c].transaction = call[c].transaction]_vars

\* An execute that had to ask for the nonce, the fee data and the gas has
\* handed its built transaction to the signer.
C26_Witness ==
    \E c \in Calls :
        LET f == call[c] IN
        /\ Executing(f)
        /\ f.pc = "sent"
        /\ f.asked = [nonce |-> 1, fee |-> 1, gas |-> 1]
        /\ f.sentTx = f.transaction
        /\ f.sentTx.gasLimit = f.answers.gasLimit
        /\ f.sendCalls = 1

\* An execute whose build failed has ended without a send.
C26_FailedBuildWitness ==
    \E c \in Calls :
        /\ Executing(call[c])
        /\ call[c].pc = "failed"
        /\ call[c].failed = "gas"
        /\ call[c].sendCalls = 0

\* C27: within one executeQuoteTransaction call the signer whose send is
\* invoked is the signer installed when the call was made, and the estimate
\* the transaction was filled with was asked for that signer's address, also
\* when setSigner runs at an await of the build.
C27_SenderIsSignerAtCall ==
    \A c \in Calls :
        LET f == call[c] IN
        (Executing(f) /\ f.sendCalls > 0) =>
            /\ f.sentBy = f.signerAtCall
            /\ f.gasReq.from \in {NoString, f.sentBy}

\* What the code gives: the send is invoked on the signer installed at the
\* time of the send, with the transaction filled for the fromAddress argument.
C27_SenderIsSignerAtSend ==
    [][\A c \in Calls :
          (Executing(call[c]) /\ call[c].sendCalls = 0 /\ call'[c].sendCalls > 0) =>
              /\ call'[c].sentBy = signer
              /\ call'[c].sentTx = call[c].transaction]_vars

\* A transaction filled for alice, under alice, has been sent by bob.
C27_SwappedWitness ==
    \E c \in Calls :
        LET f == call[c] IN
        /\ Executing(f)
        /\ f.pc = "sent"
        /\ f.signerAtCall = "alice"
        /\ f.fromAddress = "alice"
        /\ f.gasReq.from = "alice"
        /\ f.sentBy = "bob"

\* ------------------------------------------ properties of the signer check
\* The TransactionError a call made without a signer is to fail with.
SignerRequired(f) ==
    IF f.method = "signAndSendTransaction"
    THEN "TransactionError: Signer is required for transaction execution"
    ELSE "TransactionError: Signer is required for transaction building"
Called(c) == call[c].pc = "idle" /\ call'[c].pc # "idle"

\* C28: on an executor without a signer buildTransaction,
\* signAndSendTransaction and executeQuoteTransaction fail with the
\* TransactionError of the missing signer, with no provider query and no
\* send made; once a signer is installed no call fails for that reason.
C28_NoSignerFailsBeforeAnyQuery ==
    [][\A c \in Calls :
          /\ (Called(c) /\ signer = NoSigner) =>
                 /\ call'[c].pc = "failed"
                 /\ call'[c].error = SignerRequired(call'[c])
                 /\ call'[c].asked = NoAsked
                 /\ call'[c].sendCalls = 0
                 /\ sends' = sends
                 /\ chain' = chain
          /\ (Called(c) /\ signer # NoSigner) =>
                 call'[c].error # SignerRequired(call'[c])
          /\ signer # NoSigner => signer' # NoSigner]_vars

\* What the shipped modules do: the call made without a signer is refused
\* before any query or send, with the TypeError of the constructor that is
\* not there; a call made with a signer is not refused at its start.
C28_NoSignerRefusedBeforeAnyQuery ==
    [][\A c \in Calls :
          /\ (Called(c) /\ signer = NoSigner) =>
                 /\ call'[c].pc = "failed"
                 /\ call'[c].error = "TypeError: types_1.TransactionError is not a constructor"
                 /\ call'[c].asked = NoAsked
                 /\ call'[c].sendCalls = 0
                 /\ sends' = sends
                 /\ chain' = chain
          /\ (Called(c) /\ signer # NoSigner) => call'[c].pc # "failed"
          /\ signer # NoSigner => signer' # NoSigner]_vars

\* An execute was refused for want of a signer and, the caller still holding
\* its error, the same call on the same executor has sent its transaction.
C28_RefusedThenSentWitness ==
    /\ signer # NoSigner
    /\ call[1].method = "executeQuoteTransaction"
    /\ call[1].pc = "failed"
    /\ call[1].asked = NoAsked
    /\ call[1].sendCalls = 0
    /\ call[2].method = "executeQuoteTransaction"
    /\ call[2].txData = call[1].txData
    /\ call[2].config = call[1].config
    /\ call[2].pc = "sent"

\* --------------------------------------- properties of the Go submit
GoSubmit == go.method = "SignAndSendTransaction"

\* C29: Go SignAndSendTransaction broadcasts only a transaction it has
\* signed: a failure to parse the key, to get the chain id or to sign ends
\* the call with no broadcast; every error, that of the broadcast included,
\* comes with the zero hash, and another hash only with a broadcast that
\* succeeded.
C29_BroadcastOnlySignedZeroHashOnError ==
    GoSubmit =>
        /\ go.broadcasts > 0 =>
               /\ go.signs = 1
               /\ go.asked.chainId = 1
               /\ SignTxError(go.tx) = "none"
               /\ \/ go.err = "none"
                  \/ go.err = "failed to send transaction: " \o go.reject
        /\ (\/ go.err = "failed to parse private key: " \o HexToECDSAError(go.privateKey)
            \/ \E m \in RpcErrors : go.err = "failed to get chain ID: " \o m
            \/ go.err = "failed to sign transaction: " \o SignTxError(go.tx))
               => go.broadcasts = 0
        /\ go.state = "error" => go.hash = ZeroHash /\ go.err # "none"
        /\ go.state \notin {"returned", "error"} => go.hash = NoString
        /\ go.hash \notin {ZeroHash, NoString} =>
               /\ go.state = "returned"
               /\ go.hash = TxHash
               /\ go.err = "none"
               /\ go.reject = "none"
               /\ go.broadcasts = 1

\* The signer refused the dynamic-fee transaction: the call ended with the
\* zero hash and nothing was broadcast.
C29_Witness ==
    /\ GoSubmit
    /\ go.state = "error"
    /\ go.signs = 1
    /\ go.err = "failed to sign transaction: transaction type not supported"
    /\ go.broadcasts = 0
    /\ go.hash = ZeroHash

\* --------------------------------------- properties of the Go builders
GoBuild == go.method \in {"BuildTransaction", "BuildEIP1559Transaction"}

\* C30: the Go builders are total over quote Tx values: a call ends with a
\* transaction or with an error, never abnormally, also for a Tx whose gas
\* field is absent, and then the gas limit of the transaction is an estimate
\* obtained from the chain.
C30_GoBuildersTotal ==
    GoBuild =>
        /\ go.state # "panic"
        /\ (go.state = "returned" /\ go.txData.gas = undefined) =>
               go.tx.gasLimit \in GasEstimates

\* A builder given a quote without gas, every query answered, has ended in
\* the panic of the nil dereference.
C30_PanicWitness ==
    /\ go.method = "BuildTransaction"
    /\ go.txData.gas = undefined
    /\ go.asked.nonce = 1
    /\ go.asked.gasPrice = 1
    /\ go.failed = "none"
    /\ go.state = "panic"

====
